---- MODULE Spec2Model ----
(***************************************************************************)
(* Query lifecycle and escalation workflow of the farmer advisory backend. *)
(*                                                                         *)
(* The model follows backend/routes/query.js (farmer and officer routes),  *)
(* backend/routes/officer.js (the second set of officer routes, mounted at *)
(* /api/officer) and the mongoose schema of backend/models/Query.js.       *)
(*                                                                         *)
(* Texts are sequences of one-character strings so that String.trim() and  *)
(* the JavaScript truthiness tests on request fields are computed, not     *)
(* assumed.  Dates are positive integers read from a clock; NoDate stands  *)
(* for null/undefined.  Store bookkeeping that no route reads (updatedAt,  *)
(* the AI answer text, category, language) is left out of the record.      *)
(***************************************************************************)
EXTENDS Integers, Sequences, FiniteSets, TLC

\* ---------------------------------------------------------------- bounds
MaxTime == 2          \* the clock runs over 1..MaxTime

\* ------------------------------------------------------------ constants
KeepLimit == 100      \* .skip(100) of the retention clean-up
RatingMin == 1
RatingMax == 5
NoDate == 0           \* null / undefined Date
NoRating == 0         \* rating absent (undefined; also the falsy number 0)

NoUser == "none"      \* null ObjectId
NoId == 0             \* request carried no usable document id
NullStr == "null"     \* null enum value
NullText == <<"null">>   \* null / undefined String
DefaultReason == <<"d">> \* 'Farmer requested officer review'

\* ------------------------------------------------------- users and roles
Users == {"f1", "o1", "ad"}

\* User.role of each account (models/User.js enum farmer | officer | admin)
RoleOf(u) ==
    CASE u = "o1" -> "officer"
      [] u = "ad" -> "admin"
      [] OTHER -> "farmer"

\* ------------------------------------------------------- request inputs
QueryIds == {1}                  \* document ids requests may name
Askers == {"f1"}                 \* the accounts that post questions
Questions == {<<" ">>, <<" ", "q">>}
Reasons == {<<>>, <<"a", " ">>}
Notes == {<<" ">>, <<" ", "n">>}
Replies == {<<" ">>, <<"a", " ">>}
Ratings == {NoRating, 5, 6}

\* ------------------------------------------------- JavaScript primitives
\* String.prototype.trim
RECURSIVE TrimLeft(_)
TrimLeft(s) ==
    IF s # <<>> /\ Head(s) = " " THEN TrimLeft(Tail(s)) ELSE s

RECURSIVE TrimRight(_)
TrimRight(s) ==
    IF s # <<>> /\ s[Len(s)] = " " THEN TrimRight(SubSeq(s, 1, Len(s) - 1)) ELSE s

Trim(s) == TrimRight(TrimLeft(s))

\* truthiness of a string-valued request field: undefined and '' are falsy
Truthy(s) == s # NullText /\ s # <<>>

\* `x` alone as the condition: the text is not trimmed before the test
HasText_NoTrim(s) == Truthy(s)

\* `x && x.trim()` as a condition
HasText(s) == Truthy(s) /\ Trim(s) # <<>>

\* mongoose `trim: true` setter on a String path (null stays null)
TrimSetter(s) == IF s = NullText THEN NullText ELSE Trim(s)

\* ------------------------------------------------------ schema (Query.js)
StatusEnum == {"normal", "escalated", "in_review", "resolved", "resolved_by_officer"}
EscalationStatusEnum == {"pending", "escalated", "in_review", "resolved_by_officer", NullStr}
ResolvedByEnum == {"farmer", "officer", "system", NullStr}
NestedStatusEnum == {"pending", "assigned", "in_review", "replied", "closed"}

VARIABLES
    store,     \* the queries collection: document id -> Query document
    nextId,    \* next fresh document id
    now,       \* the clock read by `new Date()`
    res,       \* the last request served: route, HTTP status and a few facts about it
    race       \* requests in flight between their findOne/findById and their save()

vars == <<store, nextId, now, res, race>>


\* ------------------------------------------------------------- documents
\* a new document filed as escalated
NewStatus_Escalated == "escalated"

\* `status: 'normal'` of the document literal of POST /ask
NewStatus == "normal"

\* The document built by POST /ask; fields the schema would default are all
\* given explicitly by the route.
NewQuery(userId, question, t) ==
    [ userId |-> userId,
      question |-> Trim(question),
      createdAt |-> t,
      resolved |-> FALSE,
      resolvedBy |-> NullStr,
      rating |-> NoRating,
      escalated |-> FALSE,
      status |-> NewStatus,
      escalationStatus |-> NullStr,
      escalationReason |-> NullText,
      escalationNotes |-> NullText,
      escalatedAt |-> NoDate,
      resolvedAt |-> NoDate,
      officerId |-> NoUser,
      officerResponse |-> <<>>,
      officerUpdatedAt |-> NoDate,
      escalation |->
        [ isEscalated |-> FALSE,
          status |-> "pending",
          reason |-> <<>>,
          requestedAt |-> NoDate,
          requestedBy |-> userId,
          officerId |-> NoUser,
          officerReply |-> <<>>,
          officerNotes |-> <<>>,
          repliedAt |-> NoDate ] ]

\* Validate with the enum of escalationStatus left out of the schema
Validate_NoEscalationStatusEnum(doc) ==
    /\ doc.question # <<>>
    /\ doc.status \in StatusEnum
    /\ doc.resolvedBy \in ResolvedByEnum
    /\ doc.escalation.status \in NestedStatusEnum
    /\ (doc.rating = NoRating \/ (doc.rating >= RatingMin /\ doc.rating <= RatingMax))

\* Validate with the enums of status and escalationStatus left out of the
\* schema
Validate_NoStatusEnums(doc) ==
    /\ doc.question # <<>>
    /\ doc.resolvedBy \in ResolvedByEnum
    /\ doc.escalation.status \in NestedStatusEnum
    /\ (doc.rating = NoRating \/ (doc.rating >= RatingMin /\ doc.rating <= RatingMax))

\* Schema validation run by document.save(): required paths, enums, min/max.
Validate(doc) ==
    /\ doc.question # <<>>
    /\ doc.status \in StatusEnum
    /\ doc.escalationStatus \in EscalationStatusEnum
    /\ doc.resolvedBy \in ResolvedByEnum
    /\ doc.escalation.status \in NestedStatusEnum
    /\ (doc.rating = NoRating \/ (doc.rating >= RatingMin /\ doc.rating <= RatingMax))

\* ------------------------------------------- field assignments of routes
\* `if (!query.resolvedAt) query.resolvedAt = new Date()` without the stamp
ResolvedAtOnResolve_NoStamp(doc, t) == doc.resolvedAt

\* the farmer route stamping resolvedAt with the creation time of the query
ResolvedAtOnResolve_Created(doc, t) ==
    IF doc.resolvedAt = NoDate THEN doc.createdAt ELSE doc.resolvedAt

\* `if (!query.resolvedAt) query.resolvedAt = new Date()` of the farmer route
ResolvedAtOnResolve(doc, t) == IF doc.resolvedAt = NoDate THEN t ELSE doc.resolvedAt

\* ResolveMutation that also clears the escalation flag
ResolveMutation_ClearsEscalated(doc, rating, t) ==
    [doc EXCEPT
        !.resolved = TRUE,
        !.status = "resolved",
        !.resolvedBy = "farmer",
        !.resolvedAt = ResolvedAtOnResolve(doc, t),
        !.escalated = FALSE,
        !.rating = IF rating # NoRating /\ rating >= 1 /\ rating <= 5
                   THEN rating ELSE doc.rating]

\* ResolveMutation that never stores the rating
ResolveMutation_DropsRating(doc, rating, t) ==
    [doc EXCEPT
        !.resolved = TRUE,
        !.status = "resolved",
        !.resolvedBy = "farmer",
        !.resolvedAt = ResolvedAtOnResolve(doc, t)]

\* PUT /api/query/:id/resolve, lines 257-264
ResolveMutation(doc, rating, t) ==
    [doc EXCEPT
        !.resolved = TRUE,
        !.status = "resolved",
        !.resolvedBy = "farmer",
        !.resolvedAt = ResolvedAtOnResolve(doc, t),
        !.rating = IF rating # NoRating /\ rating >= 1 /\ rating <= 5
                   THEN rating ELSE doc.rating]

\* `query.escalatedAt = new Date()`, overwriting
EscalatedAtOnEscalate_Overwrites(doc, t) == t

\* the escalate route leaving escalatedAt as it finds it
EscalatedAtOnEscalate_Keeps(doc, t) == doc.escalatedAt

\* `query.escalatedAt = query.escalatedAt || new Date()`
EscalatedAtOnEscalate(doc, t) == IF doc.escalatedAt # NoDate THEN doc.escalatedAt ELSE t

\* PUT /api/query/:id/escalate, lines 302-318
EscalateMutation(doc, userId, reason, notes, t) ==
    [doc EXCEPT
        !.escalated = TRUE,
        !.status = "escalated",
        !.escalationStatus = "pending",
        !.escalationReason = TrimSetter(IF Truthy(reason) THEN reason ELSE DefaultReason),
        !.escalationNotes =
            IF HasText(notes) THEN TrimSetter(Trim(notes)) ELSE doc.escalationNotes,
        !.escalatedAt = EscalatedAtOnEscalate(doc, t),
        !.escalation.isEscalated = TRUE,
        !.escalation.status = "pending",
        !.escalation.reason = TrimSetter(IF Truthy(reason) THEN reason ELSE DefaultReason),
        !.escalation.requestedAt =
            IF doc.escalation.requestedAt # NoDate THEN doc.escalation.requestedAt ELSE t,
        !.escalation.requestedBy = userId,
        !.escalation.officerNotes =
            IF HasText(notes) THEN Trim(notes) ELSE doc.escalation.officerNotes]

\* the officer route leaving status at 'escalated' whatever markResolved is
RespondStatus_NeverResolved(markResolved) == "escalated"

\* `query.status = markResolved ? 'resolved' : 'escalated'`
RespondStatus(markResolved) == IF markResolved THEN "resolved" ELSE "escalated"

\* the officer route writing 'escalated' where it writes 'in_review'
RespondEscalationStatus_Escalated(markResolved) ==
    IF markResolved THEN "resolved_by_officer" ELSE "escalated"

\* `query.escalationStatus = markResolved ? 'resolved_by_officer' : 'in_review'`
RespondEscalationStatus(markResolved) ==
    IF markResolved THEN "resolved_by_officer" ELSE "in_review"

\* the officer route assigning the flag itself: `query.resolved = markResolved`
RespondResolved_Assigns(doc, markResolved) == markResolved

\* `if (markResolved) { query.resolved = true; ... }`
RespondResolved(doc, markResolved) == IF markResolved THEN TRUE ELSE doc.resolved

\* the officer route writing 'closed' into the nested status when it resolves
RespondNestedStatus_Closed(markResolved) == IF markResolved THEN "closed" ELSE "in_review"

\* `query.escalation.status = markResolved ? 'replied' : 'in_review'`
RespondNestedStatus(markResolved) == IF markResolved THEN "replied" ELSE "in_review"

\* PUT /api/query/officer/:id/respond, lines 436-462
RespondMutation(doc, officer, reply, markResolved, notes, t) ==
    [doc EXCEPT
        !.officerResponse = TrimSetter(Trim(reply)),
        !.officerUpdatedAt = t,
        !.escalationStatus = RespondEscalationStatus(markResolved),
        !.status = RespondStatus(markResolved),
        !.escalated = TRUE,
        !.officerId = officer,
        !.resolved = RespondResolved(doc, markResolved),
        !.resolvedBy = IF markResolved THEN "officer" ELSE doc.resolvedBy,
        !.resolvedAt = IF markResolved /\ doc.resolvedAt = NoDate THEN t ELSE doc.resolvedAt,
        !.escalationNotes =
            IF HasText(notes) THEN TrimSetter(Trim(notes)) ELSE doc.escalationNotes,
        !.escalation.isEscalated = TRUE,
        !.escalation.status = RespondNestedStatus(markResolved),
        !.escalation.officerId = officer,
        !.escalation.officerReply = Trim(reply),
        !.escalation.officerNotes =
            IF HasText(notes) THEN Trim(notes) ELSE doc.escalation.officerNotes,
        !.escalation.repliedAt = t]

\* POST /api/officer/respond/:id, lines 65-69
ReplyMutation(doc, officer, reply, t) ==
    [doc EXCEPT
        !.officerResponse = TrimSetter(Trim(reply)),
        !.officerId = officer,
        !.status = "officer-replied",
        !.escalationStatus = "officer-replied",
        !.officerUpdatedAt = t]

\* PUT /api/officer/resolve/:id, lines 100-103
OfficerResolveMutation(doc, t) ==
    [doc EXCEPT
        !.resolved = TRUE,
        !.status = "resolved",
        !.escalationStatus = "resolved",
        !.resolvedAt = t]

\* --------------------------------------------------------- store helpers
Exists(id) == id \in DOMAIN store

\* Query.findById(id): the lookup without the owner
OwnedBy_AnyUser(id, userId) == Exists(id)

\* Query.findOne({ _id, userId })
OwnedBy(id, userId) == Exists(id) /\ store[id].userId = userId

\* document.save(): the write happens only when validation passes
Save(id, doc) == IF Validate(doc) THEN [store EXCEPT ![id] = doc] ELSE store

\* position of a document in find({userId}).sort({createdAt: -1})
Rank(st, id) ==
    Cardinality({j \in DOMAIN st :
        /\ st[j].userId = st[id].userId
        /\ \/ st[j].createdAt > st[id].createdAt
           \/ (st[j].createdAt = st[id].createdAt /\ j > id)})

\* the cleanup skipping one document more than the limit
OldQueries_SkipOneMore(st, userId) ==
    {id \in DOMAIN st : st[id].userId = userId /\ Rank(st, id) > KeepLimit}

\* ids returned by find({userId}).sort({createdAt: -1}).skip(100)
OldQueries(st, userId) ==
    {id \in DOMAIN st : st[id].userId = userId /\ Rank(st, id) >= KeepLimit}

\* deleteMany({ _id: { $in: oldIds } })
DeleteMany(st, ids) == [id \in (DOMAIN st) \ ids |-> st[id]]

\* Query.find({ escalated: true, resolved: false }) of GET /officer/pending
PendingFilter(doc) == doc.escalated /\ ~doc.resolved

\* the status label GET /recent derives for a query, lines 153-160
RecentStatus(doc) ==
    IF doc.resolved THEN "resolved"
    ELSE IF doc.escalation.status = "replied" THEN "officer-replied"
    ELSE IF doc.escalation.isEscalated THEN "escalated"
    ELSE "normal"

\* what is remembered of a request: route, HTTP status, the :id it named and
\* the markResolved flag of its body
Response(op, code, id, mark) == [op |-> op, code |-> code, id |-> id, mark |-> mark]


\* no request is modelled between its load and its save: every handler runs
\* as one step
NoRace == << >>

\* ----------------------------------------------------------------- Init
Init ==
    /\ store = << >>
    /\ nextId = 1
    /\ now = 1
    /\ res = Response("none", 0, NoId, FALSE)
    /\ race = NoRace

\* time passes between and during requests
Tick ==
    /\ now < MaxTime
    /\ now' = now + 1
    /\ UNCHANGED <<store, nextId, res, race>>

\* ------------------------------------------------------- farmer routes
\* POST /ask answering with the fallback text when the AI call fails
AskCode_IgnoresAi(hasText, aiOk) == IF ~hasText THEN 400 ELSE 200

\* HTTP status of POST /ask: 400 for a blank question (40-42), 500 from the
\* outer catch when the AI call throws (130-136), else the res.json of 124-128
AskCode(hasText, aiOk) == IF ~hasText THEN 400 ELSE IF ~aiOk THEN 500 ELSE 200

\* POST /api/query/ask.  aiOk: the generateContent call returned; dbOk: the
\* queries collection accepted the operations of the inner try block.
AskWithin(ids, u, question, aiOk, dbOk) ==
    /\ UNCHANGED <<now, race>>
    /\ \/ /\ ~HasText(question)
          /\ res' = Response("ask", AskCode(FALSE, aiOk), NoId, FALSE)
          /\ UNCHANGED <<store, nextId>>
       \/ /\ HasText(question)
          /\ ~aiOk
          /\ res' = Response("ask", AskCode(TRUE, aiOk), NoId, FALSE)
          /\ UNCHANGED <<store, nextId>>
       \/ /\ HasText(question)
          /\ aiOk
          /\ ~dbOk
          /\ res' = Response("ask", AskCode(TRUE, aiOk), NoId, FALSE)
          /\ UNCHANGED <<store, nextId>>
       \/ /\ HasText(question)
          /\ aiOk
          /\ dbOk
          /\ nextId \in ids
          /\ LET doc == NewQuery(u, question, now)
                 saved == IF Validate(doc)
                          THEN [id \in DOMAIN store \cup {nextId} |->
                                    IF id = nextId THEN doc ELSE store[id]]
                          ELSE store
             IN  store' = IF Validate(doc)
                          THEN DeleteMany(saved, OldQueries(saved, u))
                          ELSE store
          /\ nextId' = nextId + 1
          /\ res' = Response("ask", AskCode(TRUE, aiOk), nextId, FALSE)

\* POST /api/query/ask while the collection holds fewer than the documents
\* named by QueryIds
Ask(u, question, aiOk, dbOk) == AskWithin(QueryIds, u, question, aiOk, dbOk)

\* PUT /api/query/:id/resolve
FarmerResolve(u, id, rating) ==
    /\ UNCHANGED <<nextId, now, race>>
    /\ \/ /\ ~OwnedBy(id, u)
          /\ res' = Response("resolve", 404, id, FALSE)
          /\ UNCHANGED store
       \/ /\ OwnedBy(id, u)
          /\ LET doc == ResolveMutation(store[id], rating, now)
             IN  /\ store' = Save(id, doc)
                 /\ res' = Response("resolve", IF Validate(doc) THEN 200 ELSE 500, id, FALSE)

\* PUT /api/query/:id/escalate
Escalate(u, id, reason, notes) ==
    /\ UNCHANGED <<nextId, now, race>>
    /\ \/ /\ ~OwnedBy(id, u)
          /\ res' = Response("escalate", 404, id, FALSE)
          /\ UNCHANGED store
       \/ /\ OwnedBy(id, u)
          /\ LET doc == EscalateMutation(store[id], u, reason, notes, now)
             IN  /\ store' = Save(id, doc)
                 /\ res' = Response("escalate", IF Validate(doc) THEN 200 ELSE 500, id, FALSE)

\* ------------------------------------------------------ officer routes
\* requireOfficer of routes/query.js
RequireOfficer(u) == RoleOf(u) \in {"officer", "admin"}

\* ensureOfficer of routes/officer.js
EnsureOfficer(u) == RoleOf(u) = "officer"

\* PUT /api/query/officer/:id/respond
OfficerRespond(u, id, reply, markResolved, notes) ==
    /\ UNCHANGED <<nextId, now, race>>
    /\ \/ /\ ~RequireOfficer(u)
          /\ res' = Response("respond", 403, id, markResolved)
          /\ UNCHANGED store
       \/ /\ RequireOfficer(u)
          /\ ~HasText(reply)
          /\ res' = Response("respond", 400, id, markResolved)
          /\ UNCHANGED store
       \/ /\ RequireOfficer(u)
          /\ HasText(reply)
          /\ ~Exists(id)
          /\ res' = Response("respond", 404, id, markResolved)
          /\ UNCHANGED store
       \/ /\ RequireOfficer(u)
          /\ HasText(reply)
          /\ Exists(id)
          /\ LET doc == RespondMutation(store[id], u, reply, markResolved, notes, now)
             IN  /\ store' = Save(id, doc)
                 /\ res' = Response("respond", IF Validate(doc) THEN 200 ELSE 500, id, markResolved)

\* POST /api/officer/respond/:id
OfficerReply(u, id, reply) ==
    /\ UNCHANGED <<nextId, now, race>>
    /\ \/ /\ ~EnsureOfficer(u)
          /\ res' = Response("reply", 403, id, FALSE)
          /\ UNCHANGED store
       \/ /\ EnsureOfficer(u)
          /\ ~HasText(reply)
          /\ res' = Response("reply", 400, id, FALSE)
          /\ UNCHANGED store
       \/ /\ EnsureOfficer(u)
          /\ HasText(reply)
          /\ ~(Exists(id) /\ store[id].escalated)
          /\ res' = Response("reply", 404, id, FALSE)
          /\ UNCHANGED store
       \/ /\ EnsureOfficer(u)
          /\ HasText(reply)
          /\ Exists(id) /\ store[id].escalated
          /\ LET doc == ReplyMutation(store[id], u, reply, now)
             IN  /\ store' = Save(id, doc)
                 /\ res' = Response("reply", IF Validate(doc) THEN 200 ELSE 500, id, FALSE)

\* PUT /api/officer/resolve/:id
OfficerResolve(u, id) ==
    /\ UNCHANGED <<nextId, now, race>>
    /\ \/ /\ ~EnsureOfficer(u)
          /\ res' = Response("officerResolve", 403, id, FALSE)
          /\ UNCHANGED store
       \/ /\ EnsureOfficer(u)
          /\ ~(Exists(id) /\ store[id].escalated)
          /\ res' = Response("officerResolve", 404, id, FALSE)
          /\ UNCHANGED store
       \/ /\ EnsureOfficer(u)
          /\ Exists(id) /\ store[id].escalated
          /\ LET doc == OfficerResolveMutation(store[id], now)
             IN  /\ store' = Save(id, doc)
                 /\ res' = Response("officerResolve", IF Validate(doc) THEN 200 ELSE 500, id, FALSE)

\* ------------------------------------------------------- specification
Next ==
    \/ Tick
    \/ \E u \in Askers, q \in Questions, aiOk \in BOOLEAN, dbOk \in BOOLEAN :
          Ask(u, q, aiOk, dbOk)
    \/ \E u \in Users, id \in QueryIds, r \in Ratings :
          FarmerResolve(u, id, r)
    \/ \E u \in Users, id \in QueryIds, r \in Reasons, n \in Notes :
          Escalate(u, id, r, n)
    \/ \E u \in Users, id \in QueryIds, r \in Replies, m \in BOOLEAN, n \in Notes :
          OfficerRespond(u, id, r, m, n)
    \/ \E u \in Users, id \in QueryIds, r \in Replies :
          OfficerReply(u, id, r)
    \/ \E u \in Users, id \in QueryIds :
          OfficerResolve(u, id)

Spec == Init /\ [][Next]_vars

\* ------------------------------------------- handlers interleaved at await
\* Every handler awaits its findOne/findById, assigns to the loaded document
\* in one synchronous block that ends by calling save(), and awaits the end of
\* that save; requests of other clients run during the two awaits.
Callers == {1, 2}

\* the requests in flight: the owner's resolve and escalate, an officer's
\* respond with and without markResolved, an admin's respond with another text
RaceRequests ==
    { [op |-> "resolve", user |-> "f1", rating |-> 5,
       reply |-> <<>>, mark |-> FALSE, reason |-> <<>>, notes |-> <<" ">>],
      [op |-> "escalate", user |-> "f1", rating |-> NoRating,
       reply |-> <<>>, mark |-> FALSE, reason |-> <<"a", " ">>, notes |-> <<" ">>],
      [op |-> "respond", user |-> "o1", rating |-> NoRating,
       reply |-> <<"a", " ">>, mark |-> FALSE, reason |-> <<>>, notes |-> <<" ">>],
      [op |-> "respond", user |-> "o1", rating |-> NoRating,
       reply |-> <<"a", " ">>, mark |-> TRUE, reason |-> <<>>, notes |-> <<" ">>],
      [op |-> "respond", user |-> "ad", rating |-> NoRating,
       reply |-> <<"b">>, mark |-> FALSE, reason |-> <<>>, notes |-> <<" ">>] }

\* the documents the race starts from: a query as ask stores it, the same
\* query after its owner escalated it, and that one after officer o1 answered
\* it with the text 'b'
RaceBases ==
    { NewQuery("f1", <<" ", "q">>, 1),
      EscalateMutation(NewQuery("f1", <<" ", "q">>, 1), "f1", <<"a", " ">>, <<" ">>, 1),
      RespondMutation(
          EscalateMutation(NewQuery("f1", <<" ", "q">>, 1), "f1", <<"a", " ">>, <<" ">>, 1),
          "o1", <<"b">>, FALSE, <<" ">>, 1) }

\* the assignments of the three routes of query.js to a loaded document
Assignments(req, doc, t) ==
    CASE req.op = "resolve" -> ResolveMutation(doc, req.rating, t)
      [] req.op = "escalate" -> EscalateMutation(doc, req.user, req.reason, req.notes, t)
      [] req.op = "respond" ->
            RespondMutation(doc, req.user, req.reply, req.mark, req.notes, t)

\* document.save() of a loaded document: an update of the stored document
\* that sets the paths whose value the handler changed since the load, and no
\* other path
SaveDelta(stored, orig, doc) ==
    [f \in DOMAIN stored |->
        IF f = "escalation"
        THEN [g \in DOMAIN stored.escalation |->
                 IF doc.escalation[g] # orig.escalation[g]
                 THEN doc.escalation[g] ELSE stored.escalation[g]]
        ELSE IF doc[f] # orig[f] THEN doc[f] ELSE stored[f]]

\* a request that has not loaded anything yet
Idle == [phase |-> "idle"]

RaceInit ==
    /\ \E d \in RaceBases : store = <<d>>
    /\ nextId = 2
    /\ now = 1
    /\ res = Response("none", 0, NoId, FALSE)
    /\ race = [c \in Callers |-> Idle]

\* time passes during the awaits
RaceTick ==
    /\ now < MaxTime
    /\ now' = now + 1
    /\ UNCHANGED <<store, nextId, res, race>>

\* `await Query.findOne(...)` / `await Query.findById(...)` returns
Load(c, req) ==
    /\ race[c].phase = "idle"
    /\ race' = [race EXCEPT ![c] =
                  [phase |-> "loaded", req |-> req, orig |-> store[1], doc |-> store[1]]]
    /\ UNCHANGED <<store, nextId, now, res>>

\* the synchronous block of assignments, `new Date()` included
Modify(c) ==
    /\ race[c].phase = "loaded"
    /\ race' = [race EXCEPT ![c].phase = "modified",
                            ![c].doc = Assignments(race[c].req, race[c].orig, now)]
    /\ UNCHANGED <<store, nextId, now, res>>

\* `await query.save()` completes
SaveCall(c) ==
    /\ race[c].phase = "modified"
    /\ store' = IF Validate(race[c].doc)
                THEN [store EXCEPT ![1] = SaveDelta(store[1], race[c].orig, race[c].doc)]
                ELSE store
    /\ race' = [race EXCEPT ![c].phase = "done"]
    /\ UNCHANGED <<nextId, now, res>>

RaceNext ==
    \/ RaceTick
    \/ \E c \in Callers, req \in RaceRequests : Load(c, req)
    \/ \E c \in Callers : Modify(c)
    \/ \E c \in Callers : SaveCall(c)

SpecRace == RaceInit /\ [][RaceNext]_vars


\* ------------------------------------------- retention of POST /ask
\* The cleanup of POST /ask shows once an owner holds more than KeepLimit
\* queries: the collection starts one short of the limit, all of it asked by
\* f1 at the first instant, and MaxAsks more queries may be stored.
MaxAsks == 3

RetainedAtStart == KeepLimit - 1

\* any signed-in user may ask
RetainAskers == {"f1", "o1"}

RetainInit ==
    /\ store = [id \in 1..RetainedAtStart |-> NewQuery("f1", <<" ", "q">>, 1)]
    /\ nextId = RetainedAtStart + 1
    /\ now = 1
    /\ res = Response("none", 0, NoId, FALSE)
    /\ race = NoRace

RetainNext ==
    \/ Tick
    \/ \E u \in RetainAskers, q \in Questions, aiOk \in BOOLEAN, dbOk \in BOOLEAN :
          AskWithin(1..(RetainedAtStart + MaxAsks), u, q, aiOk, dbOk)

SpecRetain == RetainInit /\ [][RetainNext]_vars

\* ================================================================ claims
Terminal(doc) == doc.status \in {"resolved", "resolved_by_officer"}

HttpCodes == {200, 400, 403, 404, 500}

\* this step is the route `op` serving a request for document id and answering
\* with `code` (every route records its answer in res and leaves the clock
\* alone; only Tick moves the clock)
Served(op, id, code) ==
    /\ now' = now
    /\ res'.op = op /\ res'.id = id /\ res'.code = code

\* C1: for every stored Query, `resolved` is true exactly when `status` is
\* `resolved` or `resolved_by_officer`.
C1_ResolvedIffTerminalStatus ==
    \A id \in DOMAIN store : store[id].resolved <=> Terminal(store[id])

C4_RespondOnTerminalRefused ==
    [][\A id \in DOMAIN store :
          ( /\ Terminal(store[id])
            /\ \E code \in HttpCodes : Served("respond", id, code) )
          => ( res'.code # 200 /\ store' = store )]_vars

\* C5: once the status of a query is terminal, no operation moves it to a
\* non-terminal value.
C5_TerminalAbsorbing ==
    [][\A id \in DOMAIN store :
          (Terminal(store[id]) /\ id \in DOMAIN store') => Terminal(store'[id])]_vars

\* C6: escalatedAt is set exactly when escalated is true, and an escalate on
\* a query whose escalatedAt is set leaves it as it is.
C6_EscalatedAtIffEscalated ==
    \A id \in DOMAIN store : (store[id].escalatedAt # NoDate) <=> store[id].escalated

\* C7: resolvedAt is set exactly when resolved is true.
C7_ResolvedAtIffResolved ==
    \A id \in DOMAIN store : (store[id].resolvedAt # NoDate) <=> store[id].resolved

\* a resolved query, right after the request that resolved it
C7_Witness ==
    /\ res.op \in {"resolve", "respond"} /\ res.code = 200
    /\ \E id \in DOMAIN store : store[id].resolved /\ store[id].resolvedAt = now

\* C8: once resolvedAt is set, no later operation changes it.
C8_ResolvedAtSetOnce ==
    [][\A id \in DOMAIN store :
          (store[id].resolvedAt # NoDate /\ id \in DOMAIN store')
          => store'[id].resolvedAt = store[id].resolvedAt]_vars

\* the farmer has resolved, at a later time, a query an officer had resolved
C8_Witness ==
    /\ res.op = "resolve" /\ res.code = 200
    /\ \E id \in DOMAIN store :
          /\ store[id].resolvedBy = "farmer"
          /\ store[id].escalationStatus = "resolved_by_officer"
          /\ store[id].resolvedAt = store[id].officerUpdatedAt
          /\ store[id].resolvedAt < now

\* the record but for the reason and notes fields, flat and nested
SameButReasonNotes(a, b) ==
    [a EXCEPT !.escalationReason = b.escalationReason,
              !.escalationNotes = b.escalationNotes,
              !.escalation.reason = b.escalation.reason,
              !.escalation.officerNotes = b.escalation.officerNotes] = b

\* C9: an escalate on a query that was escalated before keeps escalatedAt and
\* escalation.requestedAt; an escalate right after an escalate changes nothing
\* but the reason and notes.
C9_EscalateTwice ==
    [][\A id \in DOMAIN store :
          ( /\ store[id].escalatedAt # NoDate
            /\ Served("escalate", id, 200) )
          => ( /\ store'[id].escalatedAt = store[id].escalatedAt
               /\ store'[id].escalation.requestedAt = store[id].escalation.requestedAt
               /\ (res.op = "escalate" /\ res.code = 200)
                    => SameButReasonNotes(store[id], store'[id]) )]_vars

\* a second escalate has just succeeded: an officer replied after the first
\* one, and the query is back to `pending` at a later time
C9_Witness ==
    /\ res.op = "escalate" /\ res.code = 200
    /\ \E id \in DOMAIN store :
          /\ store[id].escalationStatus = "pending"
          /\ store[id].escalatedAt # NoDate
          /\ store[id].escalatedAt < store[id].officerUpdatedAt
          /\ store[id].escalation.requestedAt = store[id].escalatedAt

\* C10: once escalated is true it is never false again.
C10_EscalatedMonotonic ==
    [][\A id \in DOMAIN store :
          (store[id].escalated /\ id \in DOMAIN store') => store'[id].escalated]_vars

\* an escalated query that the farmer has then resolved
C10_Witness ==
    /\ res.op = "resolve" /\ res.code = 200
    /\ \E id \in DOMAIN store :
          store[id].escalated /\ store[id].escalatedAt # NoDate /\ store[id].resolved

\* workflow stage named by the flat escalationStatus: null is "no escalation",
\* 'resolved_by_officer' is the officer's closing answer
FlatStage(doc) ==
    CASE doc.escalationStatus = NullStr -> "none"
      [] doc.escalationStatus = "resolved_by_officer" -> "answered"
      [] OTHER -> doc.escalationStatus

\* workflow stage named by the nested escalation.status: 'replied' is the
\* officer's closing answer
NestedStage(doc) ==
    CASE doc.escalation.status = "replied" -> "answered"
      [] OTHER -> doc.escalation.status

\* the nested fields that copy a flat field hold the flat field's value
MirrorFieldsAgree(doc) ==
    /\ doc.escalation.isEscalated = doc.escalated
    /\ doc.escalation.officerReply = doc.officerResponse
    /\ doc.escalation.officerId = doc.officerId
    /\ (doc.escalation.requestedAt # NoDate) <=> (doc.escalatedAt # NoDate)

\* C11 (as stated): in every stored Query the nested mirror agrees with the
\* flat fields: escalation.isEscalated = escalated, escalation.officerReply =
\* officerResponse, escalation.officerId = officerId, escalation.requestedAt is
\* set exactly when escalatedAt is, and escalation.status names the same
\* workflow stage as escalationStatus.
C11_MirrorAgreesAsStated ==
    \A id \in DOMAIN store :
        MirrorFieldsAgree(store[id]) /\ NestedStage(store[id]) = FlatStage(store[id])

\* C11 (amended): in every stored Query escalation.isEscalated = escalated,
\* escalation.officerReply = officerResponse, escalation.officerId = officerId
\* and escalation.requestedAt is set exactly when escalatedAt is; once the
\* query is escalated escalation.status names the same workflow stage as
\* escalationStatus, and until then escalationStatus is null while
\* escalation.status holds its default `pending`.
C11_MirrorAgrees ==
    \A id \in DOMAIN store :
        /\ MirrorFieldsAgree(store[id])
        /\ IF store[id].escalated
           THEN NestedStage(store[id]) = FlatStage(store[id])
           ELSE store[id].escalationStatus = NullStr
                /\ store[id].escalation.status = "pending"

\* an officer has just closed an escalated query: every mirrored field has
\* been written, by the escalate route and by the respond route
C11_Witness ==
    /\ res.op = "respond" /\ res.code = 200 /\ res.mark
    /\ \E id \in DOMAIN store :
          /\ store[id].escalatedAt # NoDate
          /\ store[id].officerId # NoUser
          /\ store[id].officerResponse # <<>>
          /\ store[id].escalation.status = "replied"

\* C13: a query that is escalated when it is first resolved gets a resolvedAt
\* that is not earlier than its escalatedAt, and no later request brings
\* resolvedAt below escalatedAt again.
C13_ResolvedNotBeforeEscalated ==
    [][\A id \in DOMAIN store \cap DOMAIN store' :
          /\ ( /\ store[id].escalatedAt # NoDate
               /\ store[id].resolvedAt = NoDate
               /\ store'[id].resolvedAt # NoDate )
             => store'[id].resolvedAt >= store'[id].escalatedAt
          /\ ( /\ store[id].escalatedAt # NoDate
               /\ store[id].resolvedAt # NoDate
               /\ store[id].resolvedAt >= store[id].escalatedAt )
             => store'[id].resolvedAt >= store'[id].escalatedAt]_vars

\* a query escalated at one time has just been resolved at a later time
C13_Witness ==
    /\ res.op \in {"resolve", "respond"} /\ res.code = 200
    /\ \E id \in DOMAIN store :
          /\ store[id].escalatedAt # NoDate
          /\ store[id].resolvedAt = now
          /\ store[id].escalatedAt < store[id].resolvedAt

\* C14: a Query that appears in the store (only ask creates one) has status
\* `normal`, resolved false, escalated false, resolvedAt and escalatedAt unset
\* and escalation.isEscalated false.
C14_CreatedNormal ==
    [][\A id \in (DOMAIN store') \ (DOMAIN store) :
          /\ Served("ask", id, 200)
          /\ store'[id].status = "normal"
          /\ ~store'[id].resolved
          /\ ~store'[id].escalated
          /\ store'[id].resolvedAt = NoDate
          /\ store'[id].escalatedAt = NoDate
          /\ ~store'[id].escalation.isEscalated]_vars

\* ask has just answered and its Query is in the store, untouched so far
C14_Witness ==
    /\ res.op = "ask" /\ res.code = 200
    /\ res.id \in DOMAIN store
    /\ store[res.id].createdAt = now
    /\ store[res.id].status = "normal"

\* C15: an ask whose AI call fails is answered with an error and leaves the
\* store as it was: no Query is created.
C15_AiFailureCreatesNothing ==
    [][\A u \in Askers, q \in Questions, dbOk \in BOOLEAN :
          (now' = now /\ res'.op = "ask" /\ Ask(u, q, FALSE, dbOk))
          => ( /\ res'.code \in {400, 500}
               /\ HasText(q) => res'.code = 500
               /\ store' = store
               /\ nextId' = nextId )]_vars

\* ask has just failed with the AI error while the farmer's earlier Query is
\* still in the store
C15_Witness ==
    /\ res.op = "ask" /\ res.code = 500
    /\ store # << >>

\* C16: an ask that reports success has persisted its Query, and an ask that
\* reports failure has persisted none.
C16_AskAllOrNothing ==
    [][(now' = now /\ res'.op = "ask")
          => ( /\ res'.code = 200 =>
                    \E id \in (DOMAIN store') \ (DOMAIN store) : res'.id = id
               /\ res'.code # 200 => store' = store )]_vars

\* C17: when the owner escalates a query whose status is `normal`, the query
\* gets status `escalated`, escalated true, escalationStatus `pending`,
\* escalatedAt set to the time of the request, and escalationReason holding
\* the trimmed reason of the request (the default text when none was given).
C17_EscalateNormal ==
    [][\A u \in Users, id \in DOMAIN store, r \in Reasons, n \in Notes :
          ( /\ store[id].status = "normal"
            /\ store[id].userId = u
            /\ Served("escalate", id, res'.code)
            /\ Escalate(u, id, r, n) )
          => ( /\ res'.code = 200
               /\ store'[id].status = "escalated"
               /\ store'[id].escalated
               /\ store'[id].escalationStatus = "pending"
               /\ store'[id].escalatedAt = now
               /\ store'[id].escalationReason = (IF r = <<>> THEN DefaultReason ELSE Trim(r)) )]_vars

\* the first request after ask was the owner's escalate, with a reason
C17_Witness ==
    /\ res.op = "escalate" /\ res.code = 200
    /\ \E id \in DOMAIN store :
          /\ store[id].status = "escalated"
          /\ store[id].escalationReason = <<"a">>
          /\ store[id].officerId = NoUser
          /\ ~store[id].resolved

\* C18: when the owner resolves with rating 5 a query an officer holds in
\* review, the query gets status `resolved`, resolved true, resolvedBy
\* `farmer` and rating 5, and officerResponse and officerId, flat and nested,
\* stay as the officer wrote them.
C18_ResolveUnderReview ==
    [][\A u \in Users, id \in DOMAIN store :
          ( /\ store[id].escalationStatus = "in_review"
            /\ ~store[id].resolved
            /\ store[id].userId = u
            /\ Served("resolve", id, res'.code)
            /\ FarmerResolve(u, id, 5) )
          => ( /\ res'.code = 200
               /\ store'[id].status = "resolved"
               /\ store'[id].resolved
               /\ store'[id].resolvedBy = "farmer"
               /\ store'[id].rating = 5
               /\ store'[id].officerResponse = store[id].officerResponse
               /\ store'[id].officerId = store[id].officerId
               /\ store'[id].escalation.officerReply = store[id].escalation.officerReply
               /\ store'[id].escalation.officerId = store[id].escalation.officerId )]_vars

\* the owner has just resolved, with rating 5, a query that an officer had
\* answered and left in review
C18_Witness ==
    /\ res.op = "resolve" /\ res.code = 200
    /\ \E id \in DOMAIN store :
          /\ store[id].escalationStatus = "in_review"
          /\ store[id].resolvedBy = "farmer"
          /\ store[id].rating = 5
          /\ store[id].officerId = "o1"
          /\ store[id].officerResponse = <<"a">>

\* C19: a farmer-resolve whose rating lies outside 1..5 is refused and leaves
\* the store unchanged.
C19_BadRatingRejected ==
    [][\A u \in Users, id \in QueryIds, r \in Ratings :
          ( /\ r # NoRating
            /\ (r < RatingMin \/ r > RatingMax)
            /\ Served("resolve", id, res'.code)
            /\ FarmerResolve(u, id, r) )
          => ( /\ res'.code # 200
               /\ store' = store )]_vars

\* C20: a farmer-resolve or an escalate sent by a user who does not own the
\* query is answered 404 and leaves the store unchanged, whatever the query
\* and whoever the user.
C20_NonOwnerNotFound ==
    [][\A u \in Users, id \in DOMAIN store :
          ( /\ store[id].userId # u
            /\ now' = now
            /\ res'.op \in {"resolve", "escalate"}
            /\ \/ \E r \in Ratings : FarmerResolve(u, id, r)
               \/ \E r \in Reasons, n \in Notes : Escalate(u, id, r, n) )
          => ( /\ res'.code = 404
               /\ res'.id = id
               /\ store' = store )]_vars

\* a resolve or an escalate naming an existing query has just been answered
\* 404: its sender was not the owner
C20_Witness ==
    /\ res.op \in {"resolve", "escalate"}
    /\ res.code = 404
    /\ res.id \in DOMAIN store

\* a request applied whole to a document at time t, as a handler that runs
\* alone does
Alone(req, doc, t) ==
    LET new == Assignments(req, doc, t) IN IF Validate(new) THEN new ELSE doc

\* the documents that the two requests leave when one runs after the other
\* has finished, in either order and at any two times
SerialOutcomes(base, r1, r2) ==
    { Alone(r2, Alone(r1, base, t1), t2) : t1 \in 1..MaxTime, t2 \in 1..MaxTime }
    \cup { Alone(r1, Alone(r2, base, t2), t1) : t1 \in 1..MaxTime, t2 \in 1..MaxTime }

\* C12: when two requests on one Query have both finished, the stored record
\* is one that the two requests produce when run one after the other, in one
\* of the two orders.
C12_Linearizable ==
    (\A c \in Callers : race[c].phase = "done")
    => \E base \in RaceBases :
          store[1] \in SerialOutcomes(base, race[1].req, race[2].req)

\* the roles the workflow lets answer an escalated query
OfficerRoles == {"officer", "admin"}

\* C21: on both officer-respond entry points (PUT /api/query/officer/:id/respond
\* and POST /api/officer/respond/:id) the request is answered 403 exactly when
\* the sender's role is neither `officer` nor `admin`, and a 403 leaves the
\* store unchanged.
C21_ForbiddenIffNotOfficer ==
    [][\A u \in Users, id \in QueryIds, r \in Replies :
          ( /\ now' = now
            /\ res'.op \in {"respond", "reply"}
            /\ res'.id = id
            /\ \/ \E m \in BOOLEAN, n \in Notes : OfficerRespond(u, id, r, m, n)
               \/ OfficerReply(u, id, r) )
          => ( /\ res'.code = 403 <=> RoleOf(u) \notin OfficerRoles
               /\ res'.code = 403 => store' = store )]_vars

\* the replies with nothing but whitespace in them
BlankReplies == {r \in Replies : Trim(r) = <<>>}

\* the senders that pass the role check of the entry point `op`
Admitted(op) ==
    IF op = "respond" THEN {u \in Users : RequireOfficer(u)}
                      ELSE {u \in Users : EnsureOfficer(u)}

\* the step is the entry point res'.op serving the request of u with reply r
\* for the query id
RespondRequest(u, id, r) ==
    IF res'.op = "respond"
    THEN \E n \in Notes : OfficerRespond(u, id, r, res'.mark, n)
    ELSE OfficerReply(u, id, r)

QueriesOf(st, u) == {id \in DOMAIN st : st[id].userId = u}

C24_RespondOnNormalRefused ==
    [][\A id \in DOMAIN store :
          ( /\ store[id].status = "normal"
            /\ now' = now
            /\ res'.op \in {"respond", "reply"}
            /\ res'.id = id )
          => ( /\ res'.code # 200
               /\ store' = store )]_vars

\* C25: when two officers have respond requests under way on one query, each
\* respond that completes its save leaves officerId, officerResponse,
\* escalation.officerId and escalation.officerReply holding the values of that
\* request: the four fields always come from the last respond to write.
C25_LastRespondWins ==
    [][\A c \in Callers, d \in Callers :
          ( /\ c # d
            /\ race[c].phase = "modified"
            /\ race'[c].phase = "done"
            /\ race[c].req.op = "respond"
            /\ race[d].phase # "idle"
            /\ race[d].req.op = "respond"
            /\ race[d].req.user # race[c].req.user )
          => ( /\ store'[1].officerId = race[c].req.user
               /\ store'[1].officerResponse = Trim(race[c].req.reply)
               /\ store'[1].escalation.officerId = race[c].req.user
               /\ store'[1].escalation.officerReply = Trim(race[c].req.reply) )]_vars

\* C26: every stored Query has a status among normal, escalated, in_review,
\* resolved, resolved_by_officer and an escalationStatus among pending,
\* escalated, in_review, resolved_by_officer, null; and a request of the
\* /api/officer routes that is answered 500 (its save was rejected) leaves the
\* store unchanged.
C26_EnumValuesOnly ==
    [][/\ \A id \in DOMAIN store' :
            /\ store'[id].status \in
                  {"normal", "escalated", "in_review", "resolved", "resolved_by_officer"}
            /\ store'[id].escalationStatus \in
                  {"pending", "escalated", "in_review", "resolved_by_officer", NullStr}
       /\ (now' = now /\ res'.op \in {"reply", "officerResolve"} /\ res'.code = 500)
            => store' = store]_vars

\* a request of the /api/officer routes on an escalated query has just had
\* its save rejected
C26_Witness ==
    /\ res.op \in {"reply", "officerResolve"} /\ res.code = 500
    /\ \E id \in DOMAIN store : res.id = id /\ store[id].escalated

\* C27: right after a successful escalate the query satisfies the filter of
\* the pending list, and a query that satisfies the filter keeps satisfying
\* it under every request that does not set resolved.
C27_EscalateMakesPending ==
    [][\A id \in DOMAIN store \cap DOMAIN store' :
          /\ Served("escalate", id, 200) => PendingFilter(store'[id])
          /\ (PendingFilter(store[id]) /\ ~store'[id].resolved)
                => PendingFilter(store'[id])]_vars

\* C28: a query that is resolved stays resolved under every request: no
\* escalate, resolve or officer-respond stores resolved = false for it.
C28_ResolvedMonotonic ==
    [][\A id \in DOMAIN store \cap DOMAIN store' :
          store[id].resolved => store'[id].resolved]_vars

\* an officer has just answered, without resolving, a query that was resolved
\* before: it is still resolved
C28_Witness ==
    /\ res.op = "respond" /\ res.code = 200 /\ ~res.mark
    /\ \E id \in DOMAIN store :
          /\ res.id = id
          /\ store[id].resolved
          /\ store[id].status = "escalated"

\* C29: in every stored Query resolvedBy is set exactly when resolved is
\* true, and resolvedBy names the actor of the request that wrote resolvedAt:
\* the request that stamps resolvedAt stores its own actor (the farmer for
\* resolve, the officer for respond), and resolvedBy does not change while
\* resolvedAt keeps its stamp.
C29_ResolvedByIsResolver ==
    [][/\ \A id \in DOMAIN store' :
            store'[id].resolvedBy # NullStr <=> store'[id].resolved
       /\ \A id \in DOMAIN store \cap DOMAIN store' :
            /\ (store[id].resolvedAt = NoDate /\ store'[id].resolvedAt # NoDate)
                  => store'[id].resolvedBy =
                        (IF res'.op = "resolve" THEN "farmer" ELSE "officer")
            /\ (store[id].resolvedAt # NoDate
                   /\ store'[id].resolvedAt = store[id].resolvedAt)
                  => store'[id].resolvedBy = store[id].resolvedBy]_vars

\* an officer's reply is stored with the query
OfficerHasReplied(doc) == doc.officerId # NoUser /\ doc.officerResponse # <<>>

\* C30: for every stored Query the label that list-recent derives is
\* `resolved` exactly when the query is resolved, `officer-replied` exactly
\* when an officer has replied and the query is not resolved, `escalated`
\* exactly when the query is escalated, not resolved and without an officer's
\* reply, and `normal` exactly in the remaining case.
C30_RecentLabelMatches ==
    \A id \in DOMAIN store :
        LET doc == store[id]
            label == RecentStatus(doc)
        IN  /\ label = "resolved" <=> doc.resolved
            /\ label = "officer-replied" <=> (OfficerHasReplied(doc) /\ ~doc.resolved)
            /\ label = "escalated"
                  <=> (doc.escalated /\ ~OfficerHasReplied(doc) /\ ~doc.resolved)
            /\ label = "normal"
                  <=> (~doc.escalated /\ ~OfficerHasReplied(doc) /\ ~doc.resolved)

====
